---- MODULE Spec2Model ----
(***************************************************************************)
(* Model of divvy_demand_map_public.py: the two data-source adapters, the  *)
(* cached fallback orchestrator load_station_data, the script body that    *)
(* filters, colours, sizes and renders the station table, and the two pure *)
(* visual-encoding functions get_station_color and get_station_radius.     *)
(*                                                                         *)
(* Ratios (pandas float columns) are kept as exact fractions num/den; a    *)
(* zero denominator stands for the inf/NaN that pandas' true division      *)
(* yields on a zero divisor.  int(255 * ratio) is truncation toward zero   *)
(* and raises on inf/NaN.                                                  *)
(***************************************************************************)
EXTENDS Integers, Sequences, FiniteSets, TLC

VARIABLES
    pc,           \* position of the script run
    cache,        \* entry of st.cache_data for load_station_data, or NoEntry
    calls,        \* adapter invocations of the current load cycle, in order
    emitted,      \* user-visible st.warning / st.error of the current run
    df,           \* module-level df (line 116)
    min_capacity, \* slider value (line 124)
    filtered_df,  \* line 125
    colors,       \* filtered_df['color'] (line 154)
    radii,        \* filtered_df['radius'] (line 178)
    metrics,      \* the three st.metric counts (lines 247-259)
    fpc,          \* position of the pure-function harness
    raw,          \* raw counts of the record handed to the encoding harness
    rec,          \* enriched record handed to get_station_color
    color_out,    \* result of get_station_color(rec)
    cap_in,       \* argument of get_station_radius
    radius_out    \* result of get_station_radius(cap_in)

vars == <<pc, cache, calls, emitted, df, min_capacity, filtered_df, colors,
          radii, metrics, fpc, raw, rec, color_out, cap_in, radius_out>>

orchVars == <<pc, cache, calls, emitted, df, min_capacity, filtered_df,
              colors, radii, metrics>>

encVars == <<fpc, raw, rec, color_out, cap_in, radius_out>>

-----------------------------------------------------------------------------
(* Bounds of the model *)

MaxStations == 2

MaxCapacityC == 15

MaxCount == 16

MaxCapacityR == 120

MaxNegCapacity == 3

-----------------------------------------------------------------------------
(* Program constants *)

TTL == 300

SliderMin == 0

SliderMax == 60

SliderDefault == 10

ChannelScale == 255

Alpha == 200

NeutralShade == 200

DefaultRadius == 3

Inf == -1

None == "None"

NoEntry == [present |-> FALSE]

-----------------------------------------------------------------------------
(* Fractions standing for pandas float cells *)

Ratio(n, d) == [num |-> n, den |-> d]

Abs(x) == IF x < 0 THEN -x ELSE x

\* float is inf or NaN
Undefined(r) == r.den = 0

\* int(k * r) for a finite r: truncation toward zero
IntTrunc(k, r) ==
    LET q == (k * Abs(r.num)) \div Abs(r.den)
    IN  IF (r.num < 0) = (r.den < 0) THEN q ELSE -q

Min(a, b) == IF a <= b THEN a ELSE b

-----------------------------------------------------------------------------
(* Metric derivation of load_from_api, one merged row *)

Enrich(id, capacity, bikes, docks) ==
    LET oos == capacity - (bikes + docks)
    IN  [station_id           |-> id,
         capacity             |-> capacity,
         num_bikes_available  |-> bikes,
         num_docks_available  |-> docks,
         bike_utilization     |-> Ratio(bikes, capacity),
         dock_utilization     |-> Ratio(docks, capacity),
         out_of_service_bikes |-> oos,
         out_of_service_ratio |-> Ratio(oos, capacity)]

-----------------------------------------------------------------------------
(* get_station_color *)

\* round(x) of Python for x = n/d, d > 0: nearest integer, ties to even
RoundHalfEven(n, d) ==
    LET f == n \div d
        r == n % d
    IN  IF 2 * r < d THEN f
        ELSE IF 2 * r > d THEN f + 1
        ELSE IF f % 2 = 0 THEN f ELSE f + 1

get_station_color_round(row) ==
    LET total_bikes == row.num_bikes_available + row.out_of_service_bikes
    IN  IF total_bikes = 0
        THEN [raised |-> FALSE,
              value  |-> <<NeutralShade, NeutralShade, NeutralShade, Alpha>>]
        ELSE IF Undefined(row.bike_utilization)
                \/ Undefined(row.out_of_service_ratio)
        THEN [raised |-> TRUE, value |-> <<>>]
        ELSE LET base_intensity ==
                     RoundHalfEven(ChannelScale * row.bike_utilization.num,
                                   row.bike_utilization.den)
                 red_intensity ==
                     RoundHalfEven(ChannelScale * row.out_of_service_ratio.num,
                                   row.out_of_service_ratio.den)
             IN  [raised |-> FALSE,
                  value  |-> <<Min(255, base_intensity + red_intensity),
                               base_intensity, base_intensity, Alpha>>]

get_station_color(row) ==
    LET total_bikes == row.num_bikes_available + row.out_of_service_bikes
    IN  IF total_bikes = 0
        THEN [raised |-> FALSE,
              value  |-> <<NeutralShade, NeutralShade, NeutralShade, Alpha>>]
        ELSE IF Undefined(row.bike_utilization)
        THEN [raised |-> TRUE, value |-> <<>>]
        ELSE IF Undefined(row.out_of_service_ratio)
        THEN [raised |-> TRUE, value |-> <<>>]
        ELSE LET base_intensity == IntTrunc(ChannelScale, row.bike_utilization)
                 red_intensity  == IntTrunc(ChannelScale, row.out_of_service_ratio)
             IN  [raised |-> FALSE,
                  value  |-> <<Min(255, base_intensity + red_intensity),
                               base_intensity, base_intensity, Alpha>>]

-----------------------------------------------------------------------------
(* get_station_radius *)

size_groups ==
    << <<0, 10, 3>>, <<10, 20, 8>>, <<20, 30, 15>>, <<30, 50, 20>>,
       <<50, 75, 30>>, <<75, 100, 40>>, <<100, Inf, 50>> >>

\* capacity < max_cap, with float('inf') as upper end
Below(capacity, max_cap) == max_cap = Inf \/ capacity < max_cap

InGroup_inclusive(capacity, g) ==
    g[1] <= capacity /\ (g[2] = Inf \/ capacity <= g[2])

\* min_cap <= capacity < max_cap
InGroup(capacity, g) == g[1] <= capacity /\ Below(capacity, g[2])

RECURSIVE ScanGroups(_, _)
\* the for loop of get_station_radius from group i on: index of the first
\* matching group, 0 when the loop falls through
ScanGroups(capacity, i) ==
    IF i > Len(size_groups) THEN 0
    ELSE IF InGroup(capacity, size_groups[i]) THEN i
    ELSE ScanGroups(capacity, i + 1)

get_station_radius(capacity) ==
    LET i == ScanGroups(capacity, 1)
    IN  IF i = 0 THEN DefaultRadius ELSE size_groups[i][3]

-----------------------------------------------------------------------------
(* Harness for the visual-encoding functions: a record is drawn from the   *)
(* bounded raw counts, enriched as load_from_api does, and encoded.        *)

RawRecords ==
    [capacity : 0..MaxCapacityC, bikes : 0..MaxCount, docks : 0..MaxCount]

NoRaw == [capacity |-> 0, bikes |-> 0, docks |-> 0]

OrchIdle ==
    /\ pc = "off"
    /\ cache = NoEntry
    /\ calls = <<>>
    /\ emitted = {}
    /\ df = <<>>
    /\ min_capacity = SliderDefault
    /\ filtered_df = <<>>
    /\ colors = <<>>
    /\ radii = <<>>
    /\ metrics = None

InitColor ==
    /\ OrchIdle
    /\ fpc = "raw"
    /\ raw \in RawRecords
    /\ rec = None
    /\ color_out = None
    /\ cap_in = 0
    /\ radius_out = None

\* lines 43-46 on one row
DeriveMetrics ==
    /\ fpc = "raw"
    /\ rec' = Enrich(1, raw.capacity, raw.bikes, raw.docks)
    /\ fpc' = "enriched"
    /\ UNCHANGED <<raw, color_out, cap_in, radius_out>>
    /\ UNCHANGED orchVars

\* line 154 on one row
ApplyColor ==
    /\ fpc = "enriched"
    /\ color_out' = get_station_color(rec)
    /\ fpc' = "colored"
    /\ UNCHANGED <<raw, rec, cap_in, radius_out>>
    /\ UNCHANGED orchVars

NextColor == DeriveMetrics \/ ApplyColor

SpecColor == InitColor /\ [][NextColor]_vars

InitRadius ==
    /\ OrchIdle
    /\ fpc = "raw"
    /\ raw = NoRaw
    /\ rec = None
    /\ color_out = None
    /\ cap_in \in (0 - MaxNegCapacity)..MaxCapacityR
    /\ radius_out = None

\* line 178 on one cell
ApplyRadius ==
    /\ fpc = "raw"
    /\ radius_out' = get_station_radius(cap_in)
    /\ fpc' = "sized"
    /\ UNCHANGED <<raw, rec, color_out, cap_in>>
    /\ UNCHANGED orchVars

NextRadius == ApplyRadius

SpecRadius == InitRadius /\ [][NextRadius]_vars

-----------------------------------------------------------------------------
(* Properties of the visual encoding *)

\* the interval table of the radius rule, written out
ExpectedRadius(c) ==
    IF c < 10 THEN 3
    ELSE IF c < 20 THEN 8
    ELSE IF c < 30 THEN 15
    ELSE IF c < 50 THEN 20
    ELSE IF c < 75 THEN 30
    ELSE IF c < 100 THEN 40
    ELSE 50

MatchingGroups(c) ==
    {i \in 1..Len(size_groups) :
        /\ size_groups[i][1] <= c
        /\ (size_groups[i][2] = Inf \/ c < size_groups[i][2])}

ColorOf(v) == v.value

\* C7: every record passed to get_station_color yields four integer
\* channels in [0,255] with red >= green and red >= blue.
C7_ChannelsInRange ==
    fpc = "colored" =>
        /\ ~color_out.raised
        /\ \A i \in 1..4 : ColorOf(color_out)[i] \in 0..255
        /\ ColorOf(color_out)[1] >= ColorOf(color_out)[2]
        /\ ColorOf(color_out)[1] >= ColorOf(color_out)[3]

\* n/d (d > 0) with the fractional part dropped
TruncQuot(n, d) == IF n >= 0 THEN n \div d ELSE 0 - ((0 - n) \div d)

RawOos == raw.capacity - (raw.bikes + raw.docks)

\* C8 as stated: for capacity > 0 the colour is the neutral (200,200,200,200)
\* when bikes + out-of-service = 0, and otherwise
\* (min(255, base + red_boost), base, base, 200) with base and red_boost
\* rounded to the nearest integer.
C8_RoundedChannels ==
    (fpc = "colored" /\ raw.capacity > 0) =>
        /\ ~color_out.raised
        /\ IF raw.bikes + RawOos = 0
           THEN ColorOf(color_out) = <<200, 200, 200, 200>>
           ELSE LET base == RoundHalfEven(255 * raw.bikes, raw.capacity)
                    red_boost == RoundHalfEven(255 * RawOos, raw.capacity)
                IN  ColorOf(color_out) =
                        <<Min(255, base + red_boost), base, base, 200>>

\* C8 amended: for capacity > 0 the colour is the neutral (200,200,200,200)
\* when bikes + out-of-service = 0, and otherwise
\* (min(255, base + red_boost), base, base, 200) where base is
\* 255 * bikes / capacity and red_boost is 255 * out_of_service / capacity,
\* each truncated toward zero.
C8_TruncatedChannels ==
    (fpc = "colored" /\ raw.capacity > 0) =>
        /\ ~color_out.raised
        /\ IF raw.bikes + RawOos = 0
           THEN ColorOf(color_out) = <<200, 200, 200, 200>>
           ELSE LET base == TruncQuot(255 * raw.bikes, raw.capacity)
                    red_boost == TruncQuot(255 * RawOos, raw.capacity)
                IN  ColorOf(color_out) =
                        <<Min(255, base + red_boost), base, base, 200>>

C8_Witness ==
    /\ fpc = "colored"
    /\ raw = [capacity |-> 7, bikes |-> 2, docks |-> 4]
    /\ color_out = [raised |-> FALSE, value |-> <<108, 72, 72, 200>>]

-----------------------------------------------------------------------------
(* Inputs of the adapters: what the warehouse and the live feed hold *)

StationIds == 1..MaxStations

FeedCapacities == {0, 5, 10, 20}

FeedBikes == {0, 3}

FeedDocks == {0, 5}

Absent == [present |-> FALSE, a |-> 0, b |-> 0]

RECURSIVE InfoFrom(_, _)
\* station_information.json: the stations present, by ascending id
InfoFrom(f, i) ==
    IF i > MaxStations THEN <<>>
    ELSE (IF f[i].present
          THEN <<[station_id |-> i, capacity |-> f[i].a]>>
          ELSE <<>>) \o InfoFrom(f, i + 1)

RECURSIVE StatusFrom(_, _)
\* station_status.json: the stations present, by ascending id
StatusFrom(f, i) ==
    IF i > MaxStations THEN <<>>
    ELSE (IF f[i].present
          THEN <<[station_id |-> i, num_bikes_available |-> f[i].a,
                  num_docks_available |-> f[i].b]>>
          ELSE <<>>) \o StatusFrom(f, i + 1)

InfoFeeds ==
    {InfoFrom(f, 1) :
        f \in [StationIds ->
                 {Absent} \cup [present : {TRUE}, a : FeedCapacities, b : {0}]]}

StatusFeeds ==
    {StatusFrom(f, 1) :
        f \in [StationIds ->
                 {Absent} \cup [present : {TRUE}, a : FeedBikes, b : FeedDocks]]}

ApiFaults ==
    {"info_fetch", "info_keys", "status_fetch", "status_keys", "join",
     "metric_column"}

\* a feed fault strikes whatever the feeds hold; one non-empty pair stands
\* for them
FaultyInfo == <<[station_id |-> 1, capacity |-> 10]>>

FaultyStatus ==
    <<[station_id |-> 1, num_bikes_available |-> 3, num_docks_available |-> 5]>>

LiveEnvs ==
    [fault : {"none"}, info : InfoFeeds, status : StatusFeeds]
        \cup [fault : ApiFaults, info : {FaultyInfo}, status : {FaultyStatus}]

\* rows of divvy_station_status_gold for the current day
GoldRows == {Enrich(0, 10, 3, 5), Enrich(0, 20, 0, 20)}

RECURSIVE GoldFrom(_, _)
GoldFrom(f, i) ==
    IF i > Len(f) THEN <<>>
    ELSE <<[f[i] EXCEPT !.station_id = i]>> \o GoldFrom(f, i + 1)

GoldTables ==
    UNION {{GoldFrom(f, 1) : f \in [1..n -> GoldRows]} : n \in 0..MaxStations}

SnowflakeEnvs ==
    [conn_ok : BOOLEAN, query_ok : BOOLEAN, close_ok : BOOLEAN,
     table : GoldTables]

-----------------------------------------------------------------------------
(* Adapters.  A body evaluates to a return or a raise; the except clause   *)
(* turns a raise into an empty table and a logged diagnostic.              *)

Return(table) ==
    [raised |-> FALSE, exc |-> None, value |-> table, diag |-> {}, fault |-> "none"]

Raise(exc, fault) ==
    [raised |-> TRUE, exc |-> exc, value |-> <<>>, diag |-> {}, fault |-> fault]

\* df.empty
Empty(table) == Len(table) = 0

ExceptException_narrow(body, msg) ==
    IF body.raised /\ body.exc = "KeyError"
    THEN [raised |-> FALSE, exc |-> None, value |-> <<>>,
          diag |-> body.diag \cup {msg}, fault |-> body.fault]
    ELSE body

\* except Exception as e: logger.error(...); return pd.DataFrame()
ExceptException(body, msg) ==
    IF body.raised
    THEN [raised |-> FALSE, exc |-> None, value |-> <<>>,
          diag |-> body.diag \cup {msg}, fault |-> body.fault]
    ELSE body

get_snowflake_connection(env) ==
    IF env.conn_ok
    THEN [conn |-> "conn", diag |-> {}]
    ELSE [conn |-> None, diag |-> {"Error connecting to Snowflake"}]

load_from_snowflake(env) ==
    LET c == get_snowflake_connection(env)
        body ==
            IF c.conn = None
            THEN [Return(<<>>) EXCEPT !.diag = c.diag, !.fault = "connect"]
            ELSE IF ~env.query_ok THEN Raise("DatabaseError", "query")
            ELSE IF ~env.close_ok THEN Raise("DatabaseError", "close")
            ELSE Return(env.table)
    IN  ExceptException(body, "Error loading data from Snowflake")

\* the status rows joined to one information row
RowsFor(irow, status) ==
    LET m == SelectSeq(status, LAMBDA st : st.station_id = irow.station_id)
    IN  [k \in 1..Len(m) |->
            Enrich(irow.station_id, irow.capacity,
                   m[k].num_bikes_available, m[k].num_docks_available)]

RECURSIVE MergeEnrich(_, _)
\* pd.merge(info, status, on='station_id') followed by the derived columns
MergeEnrich(info, status) ==
    IF info = <<>> THEN <<>>
    ELSE RowsFor(Head(info), status) \o MergeEnrich(Tail(info), status)

load_from_api(env) ==
    LET body ==
            IF env.fault = "info_fetch"
            THEN Raise("RequestException", "info_fetch")
            ELSE IF env.fault = "info_keys" THEN Raise("KeyError", "info_keys")
            ELSE IF env.fault = "status_fetch"
            THEN Raise("RequestException", "status_fetch")
            ELSE IF env.fault = "status_keys"
            THEN Raise("KeyError", "status_keys")
            ELSE IF env.fault = "join" \/ env.info = <<>> \/ env.status = <<>>
            THEN Raise("KeyError", "join")
            ELSE IF env.fault = "metric_column"
            THEN Raise("KeyError", "metric_column")
            ELSE Return(MergeEnrich(env.info, env.status))
    IN  ExceptException(body, "Error loading data from API")

-----------------------------------------------------------------------------
(* load_station_data under st.cache_data(ttl=300), and the script run *)

TickStep == TTL - 1

SliderValues == {SliderMin, SliderDefault, SliderMax}

Terminal == {"ready", "done", "stopped", "crashed"}

Call(adapter, r) ==
    [adapter |-> adapter, raised |-> r.raised, result |-> r.value,
     fault |-> r.fault, diag |-> r.diag]

\* the entry st.cache_data keeps for a returned value: the value and the
\* st elements recorded while computing it, replayed on a hit
\* (source records which adapter produced the value)
CacheStore(table, msgs, source) ==
    [present |-> TRUE, table |-> table, msgs |-> msgs, age |-> 0,
     source |-> source]

Fresh_no_expiry(entry) == entry.present

\* a stored entry is served while younger than the ttl
Fresh(entry) == entry.present /\ entry.age < TTL

AfterWarehouse_always_fallback(table) == "try_live"

\* line 102: if df.empty
AfterWarehouse(table) == IF Empty(table) THEN "try_live" ELSE "return"

AfterLive_no_stop(table) ==
    IF Empty(table)
    THEN [emit |-> {"exhausted"}, halt |-> FALSE]
    ELSE [emit |-> {"degraded"}, halt |-> FALSE]

AfterLive_always_warn(table) == [emit |-> {"degraded"}, halt |-> FALSE]

AfterLive_no_warn(table) ==
    IF Empty(table)
    THEN [emit |-> {"exhausted"}, halt |-> TRUE]
    ELSE [emit |-> {}, halt |-> FALSE]

\* lines 107-111: st.error and st.stop, or st.warning
AfterLive(table) ==
    IF Empty(table)
    THEN [emit |-> {"exhausted"}, halt |-> TRUE]
    ELSE [emit |-> {"degraded"}, halt |-> FALSE]

Init ==
    /\ pc = "ready"
    /\ cache = NoEntry
    /\ calls = <<>>
    /\ emitted = {}
    /\ df = <<>>
    /\ min_capacity = SliderDefault
    /\ filtered_df = <<>>
    /\ colors = <<>>
    /\ radii = <<>>
    /\ metrics = None
    /\ fpc = "off"
    /\ raw = NoRaw
    /\ rec = None
    /\ color_out = None
    /\ cap_in = 0
    /\ radius_out = None

\* a script run starts and reaches line 116; the cache holds a fresh entry
RerunHit ==
    /\ pc \in Terminal
    /\ Fresh(cache)
    /\ pc' = "loaded"
    /\ df' = cache.table
    /\ emitted' = cache.msgs
    /\ calls' = <<>>
    /\ filtered_df' = <<>>
    /\ colors' = <<>>
    /\ radii' = <<>>
    /\ metrics' = None
    /\ UNCHANGED <<cache, min_capacity>>
    /\ UNCHANGED encVars

\* a script run starts and reaches line 116; no fresh entry: the body of
\* load_station_data runs, an expired entry is dropped
RerunMiss ==
    /\ pc \in Terminal
    /\ ~Fresh(cache)
    /\ pc' = "try_warehouse"
    /\ cache' = NoEntry
    /\ df' = <<>>
    /\ emitted' = {}
    /\ calls' = <<>>
    /\ filtered_df' = <<>>
    /\ colors' = <<>>
    /\ radii' = <<>>
    /\ metrics' = None
    /\ UNCHANGED min_capacity
    /\ UNCHANGED encVars

\* lines 99-102, and line 113 when the warehouse table is not empty
TryWarehouse ==
    /\ pc = "try_warehouse"
    /\ \E env \in SnowflakeEnvs :
          LET r == load_from_snowflake(env)
          IN  /\ calls' = Append(calls, Call("warehouse", r))
              /\ IF r.raised
                 THEN pc' = "crashed" /\ UNCHANGED <<df, cache>>
                 ELSE IF AfterWarehouse(r.value) = "return"
                 THEN /\ pc' = "loaded"
                      /\ df' = r.value
                      /\ cache' = CacheStore(r.value, emitted, "warehouse")
                 ELSE pc' = "try_live" /\ UNCHANGED <<df, cache>>
    /\ UNCHANGED <<emitted, min_capacity, filtered_df, colors, radii, metrics>>
    /\ UNCHANGED encVars

\* lines 103-113
TryLive ==
    /\ pc = "try_live"
    /\ \E env \in LiveEnvs :
          LET r == load_from_api(env)
              o == AfterLive(r.value)
          IN  /\ calls' = Append(calls, Call("live", r))
              /\ IF r.raised
                 THEN pc' = "crashed" /\ UNCHANGED <<df, cache, emitted>>
                 ELSE /\ emitted' = emitted \cup o.emit
                      /\ IF o.halt
                         THEN pc' = "stopped" /\ UNCHANGED <<df, cache>>
                         ELSE /\ pc' = "loaded"
                              /\ df' = r.value
                              /\ cache' = CacheStore(r.value, emitted', "live")
    /\ UNCHANGED <<min_capacity, filtered_df, colors, radii, metrics>>
    /\ UNCHANGED encVars

\* lines 118-127
Filter ==
    /\ pc = "loaded"
    /\ IF Empty(df)
       THEN /\ emitted' = emitted \cup {"unable"}
            /\ pc' = "stopped"
            /\ UNCHANGED <<min_capacity, filtered_df>>
       ELSE /\ \E m \in SliderValues :
                 /\ min_capacity' = m
                 /\ filtered_df' = SelectSeq(df, LAMBDA row : row.capacity >= m)
            /\ pc' = "filtered"
            /\ UNCHANGED emitted
    /\ UNCHANGED <<cache, calls, df, colors, radii, metrics>>
    /\ UNCHANGED encVars

\* line 154
ApplyColors ==
    /\ pc = "filtered"
    /\ LET out == [k \in 1..Len(filtered_df) |-> get_station_color(filtered_df[k])]
       IN  IF \E k \in 1..Len(out) : out[k].raised
           THEN pc' = "crashed" /\ UNCHANGED colors
           ELSE /\ pc' = "colored"
                /\ colors' = [k \in 1..Len(out) |-> out[k].value]
    /\ UNCHANGED <<cache, calls, emitted, df, min_capacity, filtered_df, radii,
                   metrics>>
    /\ UNCHANGED encVars

\* line 178
ApplyRadii ==
    /\ pc = "colored"
    /\ radii' = [k \in 1..Len(filtered_df) |->
                    get_station_radius(filtered_df[k].capacity)]
    /\ pc' = "sized"
    /\ UNCHANGED <<cache, calls, emitted, df, min_capacity, filtered_df, colors,
                   metrics>>
    /\ UNCHANGED encVars

Count(table, Test(_)) == Len(SelectSeq(table, Test))

\* lines 181-272: the map and the three summary counts
Render ==
    /\ pc = "sized"
    /\ metrics' =
          [empty_stations |->
               Count(filtered_df, LAMBDA row : row.num_bikes_available = 0),
           full_stations |->
               Count(filtered_df, LAMBDA row : row.num_docks_available = 0),
           out_of_service |->
               Count(filtered_df, LAMBDA row : row.out_of_service_bikes > 0)]
    /\ pc' = "done"
    /\ UNCHANGED <<cache, calls, emitted, df, min_capacity, filtered_df, colors,
                   radii>>
    /\ UNCHANGED encVars

\* time passes between script runs
Tick ==
    /\ pc \in Terminal
    /\ cache.present
    /\ cache.age < TTL
    /\ cache' = [cache EXCEPT !.age = Min(TTL, cache.age + TickStep)]
    /\ UNCHANGED <<pc, calls, emitted, df, min_capacity, filtered_df, colors,
                   radii, metrics>>
    /\ UNCHANGED encVars

Next ==
    \/ RerunHit
    \/ RerunMiss
    \/ TryWarehouse
    \/ TryLive
    \/ Filter
    \/ ApplyColors
    \/ ApplyRadii
    \/ Render
    \/ Tick

Spec == Init /\ [][Next]_vars

-----------------------------------------------------------------------------
(* Properties of the adapters, the orchestrator and the cache *)

Returned == {"loaded", "filtered", "colored", "sized", "done"}

\* where the table of the current run came from
Source == IF calls = <<>> THEN cache.source ELSE calls[Len(calls)].adapter

\* C1: in a load cycle not served from the cache load_from_snowflake is
\* invoked first and exactly once, load_from_api only after the warehouse
\* returned an empty table and at most once; a non-empty warehouse table
\* ends the cycle with exactly that table, without invoking the live feed and
\* without the backup warning or an error.
C1_WarehouseFirst ==
    /\ Len(calls) <= 2
    /\ pc = "try_warehouse" => calls = <<>>
    /\ pc = "try_live" => Len(calls) = 1
    /\ pc = "stopped" => Len(calls) = 2
    /\ (pc \in Returned /\ calls = <<>>) => (cache.present /\ df = cache.table)
    /\ Len(calls) >= 1 => calls[1].adapter = "warehouse"
    /\ Len(calls) = 2 => (calls[2].adapter = "live" /\ Empty(calls[1].result))
    /\ (Len(calls) >= 1 /\ ~Empty(calls[1].result)) =>
           /\ Len(calls) = 1
           /\ pc \in Returned
           /\ df = calls[1].result
           /\ emitted = {}

C1_Witness ==
    /\ pc = "loaded"
    /\ Len(calls) = 1
    /\ Len(calls[1].result) = 2
    /\ df = calls[1].result

\* C2: when the warehouse adapter returns an empty table (or fails) and the
\* live-feed adapter returns N > 0 records, load_station_data returns exactly
\* the live adapter's enriched table with the backup-data warning; the warning
\* is present if and only if the returned table came from the live feed.
C2_DegradedFallback ==
    /\ (Len(calls) = 2 /\ ~Empty(calls[2].result)) =>
           /\ pc \in Returned \cup {"crashed"}
           /\ df = calls[2].result
           /\ "degraded" \in emitted
    /\ pc \in Returned => ("degraded" \in emitted <=> Source = "live")

C2_Witness ==
    /\ pc = "loaded"
    /\ Len(calls) = 2
    /\ calls[1].fault = "query"
    /\ Len(df) = 2
    /\ emitted = {"degraded"}

\* C3: when both adapters return an empty table the cycle ends FAILED: the
\* terminal error is emitted, the run halts, and no downstream step (filter,
\* colour, radius, rendering, summary counts) runs on an empty table.
C3_ExhaustedHalts ==
    /\ (Len(calls) = 2 /\ Empty(calls[1].result) /\ Empty(calls[2].result)) =>
           /\ pc = "stopped"
           /\ "exhausted" \in emitted
           /\ Empty(df)
           /\ filtered_df = <<>> /\ colors = <<>> /\ radii = <<>>
           /\ metrics = None
    /\ pc \in {"filtered", "colored", "sized", "done"} => ~Empty(df)

C3_Witness ==
    /\ pc = "stopped"
    /\ Len(calls) = 2
    /\ calls[1].fault = "connect"
    /\ calls[2].fault = "status_fetch"
    /\ emitted = {"exhausted"}

\* C4: after a cycle that succeeded, every invocation of load_station_data
\* within the 300 s time-to-live returns the cached table without invoking an
\* adapter; the first invocation after expiry re-runs the fallback sequence
\* from the warehouse adapter, and its result replaces the cache entry.
C4_CacheTTL ==
    /\ [][(pc \in Terminal /\ pc' \notin Terminal) =>
             IF cache.present /\ cache.age < 300
             THEN pc' = "loaded" /\ df' = cache.table /\ calls' = <<>>
                  /\ cache' = cache
             ELSE pc' = "try_warehouse" /\ calls' = <<>>]_vars
    /\ [][(calls' # calls /\ calls' # <<>>) =>
             (pc \in {"try_warehouse", "try_live"}
              /\ ~(cache.present /\ cache.age < 300))]_vars
    /\ [][(pc \in {"try_warehouse", "try_live"} /\ pc' = "loaded") =>
             (cache'.present /\ cache'.table = df' /\ cache'.age = 0
              /\ df' = calls'[Len(calls')].result)]_vars

C4_Witness ==
    /\ pc = "loaded"
    /\ calls = <<>>
    /\ cache.present
    /\ cache.age = 299
    /\ df = cache.table

\* C5: neither adapter propagates a failure: at every failure point of
\* load_from_snowflake (connection, query) and of load_from_api (either
\* fetch, missing JSON keys, the join, a missing metric column) the adapter
\* returns an empty table and records a diagnostic instead of raising.
C5_AdaptersNeverRaise ==
    \A k \in 1..Len(calls) :
        /\ ~calls[k].raised
        /\ calls[k].fault # "none" =>
               (Empty(calls[k].result) /\ calls[k].diag # {})

C5_Witness ==
    /\ Len(calls) = 2
    /\ calls[1].fault = "close"
    /\ calls[2].fault = "metric_column"
    /\ calls[2].diag = {"Error loading data from API"}
    /\ pc = "stopped"

\* C9: division by zero is guarded: a station with capacity 0 gets a defined
\* sentinel ratio or is excluded, so no undefined ratio reaches
\* get_station_color or get_station_radius, also with the filter at 0.
C9_DivisionGuarded ==
    pc \in {"filtered", "colored", "sized", "done", "crashed"} =>
        \A k \in 1..Len(filtered_df) :
            /\ ~Undefined(filtered_df[k].bike_utilization)
            /\ ~Undefined(filtered_df[k].out_of_service_ratio)

\* C10: a FAILED cycle never populates the cache: only non-empty tables are
\* stored, and the invocation after a cycle in which both adapters returned
\* empty runs the full fallback sequence again.
C10_FailedNeverCached ==
    /\ [](cache.present => ~Empty(cache.table))
    /\ [](pc = "stopped" => ~cache.present)
    /\ [][(pc = "stopped" /\ pc' # "stopped") =>
             (pc' = "try_warehouse" /\ calls' = <<>>)]_vars

C10_Witness ==
    /\ pc = "stopped"
    /\ ~cache.present
    /\ Len(calls) = 2
    /\ calls[1].fault = "none"
    /\ calls[2].fault = "none"
    /\ "exhausted" \in emitted

====
